---- MODULE Spec2Model ----
(***************************************************************************)
(* Job lifecycle of the job launcher (JobService.createJob, launchJob,     *)
(* getResult) over the payment ledger, the manifest store, the job table   *)
(* and the escrow chain.  Every await of a handler is a step of its own,   *)
(* so that concurrent requests interleave as they do on the event loop.    *)
(***************************************************************************)
EXTENDS Integers, Sequences, FiniteSets, TLC

VARIABLES
  feePercentage,  \* ConfigNames.JOB_LAUNCHER_FEE, fixed at startup
  payments,       \* the payment table: a sequence of Payment records
  jobs,           \* the job table: jobs[id] is the row of job id
  storage,        \* the manifest bucket: storage[url] is the uploaded manifest
  chain,          \* the escrows created on chain: chain[address]
  webhooks,       \* the payloads posted to the exchange oracle
  req,            \* the requests in flight: req[s] holds the locals of slot s
  last,           \* the outcome of the handler that finished last
  launchedEvents, \* the Launched events of the escrow factory, as handled
  Escrow,         \* the subgraph store: Escrow[id] is the entity saved under id
  EscrowStatistics,
  Leader,
  KVStoreSetEvent,
  dataSavedEvents, \* the DataSaved events of the key-value store, as handled
  userEntities,   \* the user table: userEntities[id] is the row of user id
  userReq,        \* the createWeb3User call in flight, if any
  userLast,       \* the outcome of the user handler that finished last
  minimumStake,   \* Reputation.minimumStake
  reputations,    \* Reputation.reputations
  reputationLast, \* the outcome of the last call of the Reputation contract
  rewardInput,    \* the entries handed to filterAddressesToReward
  rewardOutput    \* what filterAddressesToReward returned for them

(* The state of the job launcher, of the subgraph, of the user service, of  *)
(* the Reputation contract and of the reward filter                         *)
launcherVars == <<feePercentage, payments, jobs, storage, chain, webhooks, req, last>>

graphVars ==
  <<launchedEvents, Escrow, EscrowStatistics, Leader, KVStoreSetEvent, dataSavedEvents>>

userVars == <<userEntities, userReq, userLast>>

reputationVars == <<minimumStake, reputations, reputationLast>>

rewardVars == <<rewardInput, rewardOutput>>

vars == <<launcherVars, graphVars, userVars, reputationVars, rewardVars>>

outsideLauncher == <<graphVars, userVars, reputationVars, rewardVars>>

outsideGraph == <<launcherVars, userVars, reputationVars, rewardVars>>

outsideUser == <<launcherVars, graphVars, reputationVars, rewardVars>>

outsideReputation == <<launcherVars, graphVars, userVars, rewardVars>>

outsideReward == <<launcherVars, graphVars, userVars, reputationVars>>

----------------------------------------------------------------------------
(* Bounds of the model *)

MaxJobs == 2
MaxEscrows == 2
Precision == 5
MaxLaunched == 3

Slots == {1, 2}
Users == {1, 2}
FundAmounts == {50, 200}
FeePercentages == {10}
Rates == {2}
Deposits == {100}
SupportedChainIds == {1, 2}
SelectedChainIds == {1}
RequestedChainIds == {0, 1, 9}
RequestTypes == {"FORTUNE", "IMAGE_POINTS"}

----------------------------------------------------------------------------
(* common/utils/decimal: decimal numbers m * 10^(-e), kept normalised, with  *)
(* results rounded half-up to Precision significant digits.                 *)

RECURSIVE Pow10(_)
Pow10(n) == IF n <= 0 THEN 1 ELSE 10 * Pow10(n - 1)

Abs(n) == IF n < 0 THEN -n ELSE n

Sign(n) == IF n < 0 THEN -1 ELSE 1

Max(a, b) == IF a > b THEN a ELSE b

RECURSIVE Digits(_)
Digits(n) == IF n = 0 THEN 0 ELSE 1 + Digits(n \div 10)

RECURSIVE Norm(_, _)
Norm(m, e) ==
  IF m = 0 THEN [m |-> 0, e |-> 0]
  ELSE IF e < 0 THEN Norm(m * 10, e + 1)
  ELSE IF e > 0 /\ m % 10 = 0 THEN Norm(m \div 10, e - 1)
  ELSE [m |-> m, e |-> e]

Round(m, e) ==
  LET k == Digits(Abs(m)) - Precision
  IN IF k <= 0 THEN Norm(m, e)
     ELSE Norm(Sign(m) * ((Abs(m) + 5 * Pow10(k - 1)) \div Pow10(k)), e - k)

Num(n) == Norm(n, 0)

Zero == Num(0)

Aligned(a, e) == a.m * Pow10(e - a.e)

mul(a, b) == Round(a.m * b.m, a.e + b.e)

add(a, b) == LET e == Max(a.e, b.e) IN Round(Aligned(a, e) + Aligned(b, e), e)

lt(a, b) == LET e == Max(a.e, b.e) IN Aligned(a, e) < Aligned(b, e)

neg(a) == [m |-> -a.m, e |-> a.e]

RECURSIVE LongDiv(_, _, _, _)
LongDiv(q, r, b, e) ==
  IF r = 0 \/ Digits(q) >= Precision
  THEN [q |-> IF 2 * r >= b THEN q + 1 ELSE q, e |-> e]
  ELSE LongDiv(q * 10 + ((r * 10) \div b), (r * 10) % b, b, e + 1)

div(a, b) ==
  LET s == Sign(a.m) * Sign(b.m)
      A == Abs(a.m) * Pow10(Max(b.e - a.e, 0))
      B == Abs(b.m)
      E == Max(a.e - b.e, 0)
      r == LongDiv(A \div B, A % B, B, E)
  IN Round(s * r.q, r.e)

----------------------------------------------------------------------------
(* Enumerations and records *)

JobStatus == {"PENDING", "PAID", "LAUNCHED", "FAILED", "TO_CANCEL", "CANCELED"}

JobRequestType == {"IMAGE_POINTS", "IMAGE_BOXES", "FORTUNE"}

Null == 0

NoManifest == [requestType |-> "", annotationType |-> "", fundAmount |-> Zero,
               complete |-> FALSE]

NoEntity == [id |-> Null, userId |-> Null, chainId |-> Null, manifestUrl |-> Null,
             manifestHash |-> Null, fee |-> Zero, fundAmount |-> Zero,
             status |-> "", escrowAddress |-> Null]

Idle == [op |-> "none", pc |-> "idle", userId |-> Null,
         requestType |-> "", chainId |-> Null, complete |-> FALSE,
         fundAmount |-> Zero, userBalance |-> Zero, rate |-> Zero,
         fee |-> Zero, usdTotalAmount |-> Zero, tokenFundAmount |-> Zero,
         tokenFee |-> Zero, tokenTotalAmount |-> Zero,
         manifestUrl |-> Null, manifestHash |-> Null,
         jobEntity |-> NoEntity, escrowAddress |-> Null,
         manifest |-> NoManifest]

NoOutcome == [op |-> "none", error |-> "", userId |-> Null, jobId |-> Null,
              result |-> {}]

----------------------------------------------------------------------------
(* PaymentService.getUserBalance: the aggregate of the user's succeeded     *)
(* payments, each worth amount * rate.                                      *)

RECURSIVE SumPayments(_, _)
SumPayments(ps, userId) ==
  IF ps = <<>> THEN Zero
  ELSE LET p == Head(ps)
           rest == SumPayments(Tail(ps), userId)
       IN IF p.userId = userId /\ p.status = "SUCCEEDED"
          THEN add(mul(p.amount, p.rate), rest)
          ELSE rest

getUserBalance(userId) == SumPayments(payments, userId)

(* Web3Service.validateChainId *)
validateChainId(chainId) == chainId \in SupportedChainIds

----------------------------------------------------------------------------
(* JobService.createJob, the arithmetic of lines 120-133 *)

FeeOfWholePercent(pct, fundAmount) == mul(Num(pct), fundAmount)

Fee(pct, fundAmount) == mul(div(Num(pct), Num(100)), fundAmount)

UsdTotalAmount(fundAmount, fee) == add(fundAmount, fee)

NotEnoughFundsSwapped(userBalance, usdTotalAmount) == lt(usdTotalAmount, userBalance)

NotEnoughFunds(userBalance, usdTotalAmount) == lt(userBalance, usdTotalAmount)

TokenAmountUnconverted(usdAmount, rate) == usdAmount

TokenAmount(usdAmount, rate) == mul(usdAmount, rate)

TokenTotalAmount(tokenFundAmount, tokenFee) == add(tokenFundAmount, tokenFee)

DebitPaymentNotNegated(userId, tokenTotalAmount, rate) ==
  [userId |-> userId, source |-> "BALANCE", type |-> "WITHDRAWAL",
   amount |-> tokenTotalAmount, currency |-> "HMT",
   rate |-> div(Num(1), rate), status |-> "SUCCEEDED"]

DebitPayment(userId, tokenTotalAmount, rate) ==
  [userId |-> userId, source |-> "BALANCE", type |-> "WITHDRAWAL",
   amount |-> neg(tokenTotalAmount), currency |-> "HMT",
   rate |-> div(Num(1), rate), status |-> "SUCCEEDED"]

(* The manifest createJob uploads: the fortune manifest carries requestType *)
(* and the token fund amount, the annotation manifest carries the type      *)
(* under annotation.  complete tells whether the remaining fields of the    *)
(* dto are those the schema of the manifest asks for.                       *)
BuildManifest(requestType, complete, tokenFundAmount) ==
  IF requestType = "FORTUNE"
  THEN [requestType |-> requestType, annotationType |-> "",
        fundAmount |-> tokenFundAmount, complete |-> complete]
  ELSE [requestType |-> "", annotationType |-> requestType,
        fundAmount |-> Zero, complete |-> complete]

NewJobEntityPaid(id, r, chainId) ==
  [id |-> id, userId |-> r.userId, chainId |-> chainId,
   manifestUrl |-> r.manifestUrl, manifestHash |-> r.manifestHash,
   fee |-> r.tokenFee, fundAmount |-> r.tokenFundAmount,
   status |-> "PAID", escrowAddress |-> Null]

NewJobEntity(id, r, chainId) ==
  [id |-> id, userId |-> r.userId, chainId |-> chainId,
   manifestUrl |-> r.manifestUrl, manifestHash |-> r.manifestHash,
   fee |-> r.tokenFee, fundAmount |-> r.tokenFundAmount,
   status |-> "PENDING", escrowAddress |-> Null]

PaidEntity(entity) == [entity EXCEPT !.status = "PAID"]

(* BaseEntity.save: the row of the entity's id takes the entity's fields *)
Save(entity) == [jobs EXCEPT ![entity.id] = entity]

(* A handler that returned or threw leaves its slot and records its outcome *)
Outcome(s, err) ==
  [NoOutcome EXCEPT !.op = req[s].op, !.error = err,
                    !.jobId = req[s].jobEntity.id]

Finish(s, err) ==
  /\ req' = [req EXCEPT ![s] = Idle]
  /\ last' = Outcome(s, err)

(* A request is served in the first free slot: the slots are alike *)
Free(s) == req[s].pc = "idle" /\ \A t \in Slots : t < s => req[t].pc # "idle"

InFlight(op, pcs) == Cardinality({s \in Slots : req[s].op = op /\ req[s].pc \in pcs})

----------------------------------------------------------------------------
(* createJob, one action per await that touches the tables or the bucket.   *)
(* The first step runs from the call to the balance check: the chain id is  *)
(* validated, the balance read, the rate fetched and the total compared.    *)

CreateJobStart(s, userId, requestType, chainId, fundAmount, complete, rate) ==
  /\ Free(s)
  /\ Len(storage) + InFlight("createJob", {"upload"}) < MaxJobs
  /\ LET userBalance == getUserBalance(userId)
         fee == Fee(feePercentage, Num(fundAmount))
         usdTotalAmount == UsdTotalAmount(Num(fundAmount), fee)
         tokenFundAmount == TokenAmount(Num(fundAmount), Num(rate))
         tokenFee == TokenAmount(fee, Num(rate))
         failed == [NoOutcome EXCEPT !.op = "createJob"]
     IN IF chainId # Null /\ ~validateChainId(chainId)
        THEN /\ last' = [failed EXCEPT !.error = "InvalidChainId"]
             /\ UNCHANGED req
        ELSE IF NotEnoughFunds(userBalance, usdTotalAmount)
        THEN /\ last' = [failed EXCEPT !.error = "NotEnoughFunds"]
             /\ UNCHANGED req
        ELSE /\ req' = [req EXCEPT ![s] = [Idle EXCEPT
                       !.op = "createJob", !.pc = "upload", !.userId = userId,
                       !.requestType = requestType, !.chainId = chainId,
                       !.fundAmount = Num(fundAmount), !.complete = complete,
                       !.userBalance = userBalance, !.rate = Num(rate),
                       !.fee = fee, !.usdTotalAmount = usdTotalAmount,
                       !.tokenFundAmount = tokenFundAmount, !.tokenFee = tokenFee,
                       !.tokenTotalAmount =
                          TokenTotalAmount(tokenFundAmount, tokenFee)]]
             /\ UNCHANGED last
  /\ UNCHANGED <<outsideLauncher, feePercentage, payments, jobs, storage, chain, webhooks>>

(* saveManifest: the upload returns a file, or none *)
NoUploadedFileIgnored(uploaded) == FALSE

NoUploadedFile(uploaded) == ~uploaded

CreateJobUpload(s, uploaded) ==
  /\ req[s].op = "createJob" /\ req[s].pc = "upload"
  /\ IF ~NoUploadedFile(uploaded)
     THEN /\ storage' = Append(storage, BuildManifest(req[s].requestType,
                                  req[s].complete, req[s].tokenFundAmount))
          /\ req' = [req EXCEPT ![s].pc = "create",
                                ![s].manifestUrl = Len(storage) + 1,
                                ![s].manifestHash = Len(storage) + 1]
          /\ UNCHANGED last
     ELSE /\ Finish(s, "UnableSaveFile")
          /\ UNCHANGED storage
  /\ UNCHANGED <<outsideLauncher, feePercentage, payments, jobs, chain, webhooks>>

(* chainId ?? this.routingProtocolService.selectNetwork() *)
JobChainIdSelected(chainId, selected) == selected

JobChainId(chainId, selected) == IF chainId # Null THEN chainId ELSE selected

(* jobRepository.create: the row is inserted PENDING, or nothing comes back *)
CreateJobCreate(s, created, selected) ==
  /\ req[s].op = "createJob" /\ req[s].pc = "create"
  /\ IF created
     THEN LET entity == NewJobEntity(Len(jobs) + 1, req[s],
                                     JobChainId(req[s].chainId, selected))
          IN /\ jobs' = Append(jobs, entity)
             /\ req' = [req EXCEPT ![s].pc = "pay", ![s].jobEntity = entity]
             /\ UNCHANGED last
     ELSE /\ Finish(s, "NotCreated")
          /\ UNCHANGED jobs
  /\ UNCHANGED <<outsideLauncher, feePercentage, payments, storage, chain, webhooks>>

(* The catch of the ledger write: a numeric field overflow of the query is  *)
(* IncorrectAmount, anything else NotSuccess.                               *)
PaymentErrorNotSuccess(outcome) == "NotSuccess"

PaymentError(outcome) ==
  IF outcome = "overflow" THEN "IncorrectAmount" ELSE "NotSuccess"

(* paymentRepository.create: the debit is appended, or the write throws *)
CreateJobPay(s, outcome) ==
  /\ req[s].op = "createJob" /\ req[s].pc = "pay"
  /\ IF outcome = "ok"
     THEN /\ payments' = Append(payments, DebitPayment(req[s].userId,
                                   req[s].tokenTotalAmount, req[s].rate))
          /\ req' = [req EXCEPT ![s].pc = "save"]
          /\ UNCHANGED last
     ELSE /\ Finish(s, PaymentError(outcome))
          /\ UNCHANGED payments
  /\ UNCHANGED <<outsideLauncher, feePercentage, jobs, storage, chain, webhooks>>

CreateJobSave(s) ==
  /\ req[s].op = "createJob" /\ req[s].pc = "save"
  /\ jobs' = Save(PaidEntity(req[s].jobEntity))
  /\ Finish(s, "")
  /\ UNCHANGED <<outsideLauncher, feePercentage, payments, storage, chain, webhooks>>

----------------------------------------------------------------------------
(* launchJob *)

(* The schemas of job.dto: what class-validator accepts as a fortune        *)
(* manifest and as an annotation manifest.                                  *)
FortuneManifestValid(manifest) ==
  manifest.requestType = "FORTUNE" /\ manifest.complete

CvatManifestValid(manifest) ==
  manifest.annotationType \in JobRequestType /\ manifest.complete

validateManifestTypeOnly(manifest) ==
  manifest.requestType = "FORTUNE" \/ manifest.annotationType \in JobRequestType

validateManifestFortuneOnly(manifest) ==
  manifest.requestType = "FORTUNE" => FortuneManifestValid(manifest)

(* validateManifest: the schema is chosen by the manifest's requestType *)
validateManifest(manifest) ==
  IF manifest.requestType = "FORTUNE"
  THEN FortuneManifestValid(manifest)
  ELSE CvatManifestValid(manifest)

NewEscrow(entity) ==
  [chainId |-> entity.chainId, manifestUrl |-> entity.manifestUrl,
   manifestHash |-> entity.manifestHash, jobId |-> entity.id,
   balance |-> Zero, transfers |-> 0]

(* HMToken.transfer(escrowAddress, fundAmount) *)
Transfer(escrowAddress, amount) ==
  [chain EXCEPT ![escrowAddress].balance = add(@, amount),
                ![escrowAddress].transfers = @ + 1]

LaunchedEntityNoAddress(entity, escrowAddress) ==
  [entity EXCEPT !.status = "LAUNCHED"]

LaunchedEntityNoStatus(entity, escrowAddress) ==
  [entity EXCEPT !.escrowAddress = escrowAddress]

LaunchedEntity(entity, escrowAddress) ==
  [entity EXCEPT !.escrowAddress = escrowAddress, !.status = "LAUNCHED"]

NeedsWebhookAlways(manifest) == TRUE

NeedsWebhook(manifest) == manifest.annotationType # ""

(* sendWebhook: what the oracle answers, and which answers pass !data *)
WebhookBodies == {"undefined", "emptyString", "text", "object"}

Truthy(data) == data \notin {"undefined", "null", "emptyString", "zero", "false"}

(* if (!escrowAddress) *)
NoEscrowAddressIgnored(escrowAddress) == FALSE

NoEscrowAddress(escrowAddress) == escrowAddress = Null

(* From the call to the token transfer: the escrow is created and set up,   *)
(* then the manifest is fetched and validated.  The caller hands in the     *)
(* entity of a job row.                                                     *)
LaunchJobStart(s, jobId, escrowCreated, manifestFound) ==
  /\ Free(s)
  /\ jobId \in 1..Len(jobs)
  /\ Len(chain) < MaxEscrows
  /\ LET entity == jobs[jobId]
         escrowAddress == IF escrowCreated THEN Len(chain) + 1 ELSE Null
         manifest == IF manifestFound THEN storage[entity.manifestUrl] ELSE NoManifest
         call == [Idle EXCEPT !.op = "launchJob", !.userId = entity.userId,
                              !.jobEntity = entity,
                              !.escrowAddress = escrowAddress]
         failed == [NoOutcome EXCEPT !.op = "launchJob", !.jobId = jobId]
     IN /\ chain' = IF escrowCreated THEN Append(chain, NewEscrow(entity)) ELSE chain
        /\ IF NoEscrowAddress(escrowAddress)
           THEN /\ last' = [failed EXCEPT !.error = "EscrowNotCreated"]
                /\ UNCHANGED req
           ELSE IF ~manifestFound
           THEN /\ last' = [failed EXCEPT !.error = "ManifestNotFound"]
                /\ UNCHANGED req
           ELSE IF ~validateManifest(manifest)
           THEN /\ last' = [failed EXCEPT !.error = "ManifestValidationFailed"]
                /\ UNCHANGED req
           ELSE /\ req' = [req EXCEPT ![s] = [call EXCEPT !.pc = "transfer",
                                                          !.manifest = manifest]]
                /\ UNCHANGED last
  /\ UNCHANGED <<outsideLauncher, feePercentage, payments, jobs, storage, webhooks>>

LaunchJobTransferMarksFailed(s, transferred) ==
  /\ req[s].op = "launchJob" /\ req[s].pc = "transfer"
  /\ IF transferred
     THEN /\ chain' = Transfer(req[s].escrowAddress, req[s].jobEntity.fundAmount)
          /\ req' = [req EXCEPT ![s].pc = "save"]
          /\ UNCHANGED <<last, jobs>>
     ELSE /\ Finish(s, "TransferFailed")
          /\ jobs' = Save([req[s].jobEntity EXCEPT !.status = "FAILED"])
          /\ UNCHANGED chain
  /\ UNCHANGED <<outsideLauncher, feePercentage, payments, storage, webhooks>>

LaunchJobTransfer(s, transferred) ==
  /\ req[s].op = "launchJob" /\ req[s].pc = "transfer"
  /\ IF transferred
     THEN /\ chain' = Transfer(req[s].escrowAddress, req[s].jobEntity.fundAmount)
          /\ req' = [req EXCEPT ![s].pc = "save"]
          /\ UNCHANGED last
     ELSE /\ Finish(s, "TransferFailed")
          /\ UNCHANGED chain
  /\ UNCHANGED <<outsideLauncher, feePercentage, payments, jobs, storage, webhooks>>

(* The job is saved LAUNCHED; a launch of an annotation manifest goes on to *)
(* announce the escrow to the exchange oracle, any other returns.           *)
LaunchJobSave(s) ==
  /\ req[s].op = "launchJob" /\ req[s].pc = "save"
  /\ LET entity == LaunchedEntity(req[s].jobEntity, req[s].escrowAddress)
     IN /\ jobs' = Save(entity)
        /\ IF NeedsWebhook(req[s].manifest)
           THEN /\ req' = [req EXCEPT ![s].pc = "webhook", ![s].jobEntity = entity]
                /\ UNCHANGED last
           ELSE Finish(s, "")
  /\ UNCHANGED <<outsideLauncher, feePercentage, payments, storage, chain, webhooks>>

(* sendWebhook: the payload is posted and the answer's body looked at *)
LaunchJobWebhook(s, data) ==
  /\ req[s].op = "launchJob" /\ req[s].pc = "webhook"
  /\ webhooks' = webhooks \cup {[escrowAddress |-> req[s].jobEntity.escrowAddress,
                                  chainId |-> req[s].jobEntity.chainId]}
  /\ Finish(s, IF Truthy(data) THEN "" ELSE "WebhookWasNotSent")
  /\ UNCHANGED <<outsideLauncher, feePercentage, payments, jobs, storage, chain>>

----------------------------------------------------------------------------
(* getResult: the only read of the tables is the lookup of the job; what    *)
(* the escrow and the bucket answer is the environment's.  A result         *)
(* document is the set of the properties it carries; the escrow holds a     *)
(* results url or none, and the download gives a document or nothing.       *)

FortuneFinalResultFields == {"exchangeAddress", "workerAddress", "solution"}

CvatFinalResultFields == {"url", "final_answer", "correct"}

ResultDocs ==
  { {"solution"}, {"url", "final_answer"},
    FortuneFinalResultFields, CvatFinalResultFields,
    FortuneFinalResultFields \cup CvatFinalResultFields }

ResultAnswers ==
  {[finalResultUrl |-> Null, downloaded |-> <<>>],
   [finalResultUrl |-> 1, downloaded |-> <<>>]}
  \cup {[finalResultUrl |-> 1, downloaded |-> <<d>>] : d \in ResultDocs}

(* validate(dtoCheck) of the two result dtos: one error per property of the *)
(* dto that the document lacks.                                             *)
FortuneFinalResultErrors(result) == Cardinality(FortuneFinalResultFields \ result)

CvatFinalResultErrors(result) == Cardinality(CvatFinalResultFields \ result)

ResultInvalidEither(fortuneValidationErrors, imageLabelBinaryValidationErrors) ==
  fortuneValidationErrors > 0 \/ imageLabelBinaryValidationErrors > 0

ResultInvalid(fortuneValidationErrors, imageLabelBinaryValidationErrors) ==
  fortuneValidationErrors > 0 /\ imageLabelBinaryValidationErrors > 0

FindJobAnyOwner(jobId, userId, status) ==
  IF jobId \in 1..Len(jobs) /\ jobs[jobId].status = status
  THEN jobs[jobId]
  ELSE NoEntity

FindJob(jobId, userId, status) ==
  IF /\ jobId \in 1..Len(jobs)
     /\ jobs[jobId].userId = userId
     /\ jobs[jobId].status = status
  THEN jobs[jobId]
  ELSE NoEntity

GetResult(userId, jobId, answer) ==
  /\ LET jobEntity == FindJob(jobId, userId, "LAUNCHED")
         out == [NoOutcome EXCEPT !.op = "getResult", !.userId = userId,
                                  !.jobId = jobId]
     IN last' =
          IF jobEntity = NoEntity THEN [out EXCEPT !.error = "NotFound"]
          ELSE IF answer.finalResultUrl = Null \/ answer.downloaded = <<>>
          THEN [out EXCEPT !.error = "ResultNotFound"]
          ELSE LET result == answer.downloaded[1]
               IN IF ResultInvalid(FortuneFinalResultErrors(result),
                                   CvatFinalResultErrors(result))
                  THEN [out EXCEPT !.error = "ResultValidationFailed"]
                  ELSE [out EXCEPT !.result = result]
  /\ UNCHANGED <<outsideLauncher, feePercentage, payments, jobs, storage, chain, webhooks, req>>

----------------------------------------------------------------------------
(* The subgraph: handleLaunched of the EscrowFactory mapping, over a store  *)
(* of entities kept by type and id.                                         *)

EscrowAddresses == 1..MaxLaunched
Launchers == {"launcher1", "launcher2"}
Tokens == {"token1", "token2"}
Factories == {"factory"}

STATISTICS_ENTITY_ID == "escrow-statistics-id"

(* The fixture of the test: the event of a factory that launched an escrow  *)
(* with a token, in a transaction sent by the launcher.                     *)
createLaunchedEvent(factory, launcher, token, escrow) ==
  [address |-> factory, from |-> launcher, token |-> token, escrow |-> escrow]

(* entity.save(): the store holds the entity under its id *)
SaveEntity(table, id, entity) ==
  [a \in DOMAIN table \cup {id} |-> IF a = id THEN entity ELSE table[a]]

createOrLoadEscrowStatistics ==
  IF STATISTICS_ENTITY_ID \in DOMAIN EscrowStatistics
  THEN EscrowStatistics[STATISTICS_ENTITY_ID]
  ELSE [totalEscrowCount |-> 0]

(* an attribute of an entity that was never set *)
Unset == "<unset>"

createOrLoadLeader(address) ==
  IF address \in DOMAIN Leader
  THEN Leader[address]
  ELSE [address |-> address, amountJobsLaunched |-> 0,
        role |-> Unset, fee |-> Unset, publicKey |-> Unset,
        webhookUrl |-> Unset, url |-> Unset]

LaunchedEscrowCountedBefore(event, statsEntity) ==
  [address |-> event.escrow, token |-> event.token,
   factoryAddress |-> event.address, launcher |-> event.from,
   balance |-> 0, amountPaid |-> 0, totalFundedAmount |-> 0,
   status |-> "Launched", count |-> statsEntity.totalEscrowCount - 1]

(* The Escrow entity of a Launched event, numbered by the counter *)
LaunchedEscrow(event, statsEntity) ==
  [address |-> event.escrow, token |-> event.token,
   factoryAddress |-> event.address, launcher |-> event.from,
   balance |-> 0, amountPaid |-> 0, totalFundedAmount |-> 0,
   status |-> "Launched", count |-> statsEntity.totalEscrowCount]

handleLaunched(event) ==
  LET statsEntity == [createOrLoadEscrowStatistics EXCEPT !.totalEscrowCount = @ + 1]
      leader == [createOrLoadLeader(event.from) EXCEPT !.amountJobsLaunched = @ + 1]
  IN /\ EscrowStatistics' = SaveEntity(EscrowStatistics, STATISTICS_ENTITY_ID, statsEntity)
     /\ Escrow' = SaveEntity(Escrow, event.escrow, LaunchedEscrow(event, statsEntity))
     /\ Leader' = SaveEntity(Leader, event.from, leader)
     /\ launchedEvents' = Append(launchedEvents, event)
     /\ UNCHANGED <<outsideGraph, KVStoreSetEvent, dataSavedEvents>>

(* An empty store *)
NoEntities == [a \in {} |-> 0]

----------------------------------------------------------------------------
(* The subgraph: handleDataSaved of the KVStore mapping *)

MaxDataSaved == 3

DataKeys == {"Role", "FEE", "publicKey", "webhookurl", "URL", "name"}
DataValues == {"7", "007", "seven"}

(* String.toLowerCase on the keys *)
toLowerCase(key) ==
  CASE key = "Role" -> "role"
    [] key = "FEE" -> "fee"
    [] key = "publicKey" -> "publickey"
    [] key = "webhookurl" -> "webhookurl"
    [] key = "URL" -> "url"
    [] key = "name" -> "name"

(* BigInt.fromString: the integer a decimal string denotes, in its          *)
(* canonical digits; the mapping aborts on any other string.                *)
Aborts == "<aborts>"

BigIntFromString(value) ==
  CASE value = "7" -> "7"
    [] value = "007" -> "7"
    [] value = "seven" -> Aborts

(* The DataSaved event number id of the contract: sender set key to value *)
DataSaved(id, sender, key, value) ==
  [id |-> id, sender |-> sender, key |-> key, value |-> value]

(* one id per event of the chain *)
toEventId(event) == event.id

NewKVStoreSetEvent(event) ==
  [block |-> event.id, timestamp |-> event.id, txHash |-> event.id,
   leaderAddress |-> event.sender, key |-> event.key, value |-> event.value]

AttributeKeyExact(eventKey) == eventKey

(* const key = event.params.key.toLowerCase() *)
AttributeKey(eventKey) == toLowerCase(eventKey)

(* The chain of else-ifs: the leader with the attribute of the key set *)
UpdatedLeader(leader, eventKey, value) ==
  LET key == AttributeKey(eventKey)
  IN IF key = "role" THEN [leader EXCEPT !.role = value]
     ELSE IF key = "fee" THEN [leader EXCEPT !.fee = BigIntFromString(value)]
     ELSE IF key = "publickey" THEN [leader EXCEPT !.publicKey = value]
     ELSE IF key = "webhookurl" THEN [leader EXCEPT !.webhookUrl = value]
     ELSE IF key = "url" THEN [leader EXCEPT !.url = value]
     ELSE leader

(* The subgraph stops at an event whose handler aborted: what the handler   *)
(* had saved is dropped with it.                                            *)
Indexing == \A i \in 1..Len(dataSavedEvents) : ~dataSavedEvents[i].aborted

handleDataSaved(event) ==
  LET leader == UpdatedLeader(createOrLoadLeader(event.sender), event.key, event.value)
  IN /\ Indexing
     /\ IF leader.fee = Aborts
        THEN /\ dataSavedEvents' = Append(dataSavedEvents,
                                          [event |-> event, aborted |-> TRUE])
             /\ UNCHANGED <<KVStoreSetEvent, Leader>>
        ELSE /\ KVStoreSetEvent' = SaveEntity(KVStoreSetEvent, toEventId(event),
                                              NewKVStoreSetEvent(event))
             /\ Leader' = SaveEntity(Leader, event.sender, leader)
             /\ dataSavedEvents' = Append(dataSavedEvents,
                                          [event |-> event, aborted |-> FALSE])
     /\ UNCHANGED <<outsideGraph, launchedEvents, Escrow, EscrowStatistics>>

GraphInit ==
  /\ launchedEvents = <<>>
  /\ Escrow = NoEntities
  /\ EscrowStatistics = NoEntities
  /\ Leader = NoEntities
  /\ KVStoreSetEvent = NoEntities
  /\ dataSavedEvents = <<>>

----------------------------------------------------------------------------
(* The user service: createWeb3User, checkEvmAddress and registerAddress    *)
(* over the user table.  An address is a positive number, Null is a row     *)
(* without an address (null, undefined or the empty string: all falsy).     *)

MaxUsers == 4
UserSlots == {1, 2}
UserAddresses == {1, 2}
SignerChainIds == {1}
UserTypes == {"OPERATOR"}

(* user.kyc?.status: NoKyc is a user without a kyc row *)
NoKyc == "noKyc"
KycStatus == [NONE |-> "NONE", APPROVED |-> "APPROVED", REJECTED |-> "REJECTED"]
KycStatuses == {NoKyc, KycStatus.NONE, KycStatus.APPROVED, KycStatus.REJECTED}

NoUserCall == [pc |-> "idle", address |-> Null, type |-> ""]

NoUserOutcome ==
  [op |-> "", error |-> "", userId |-> Null, address |-> Null, signature |-> Null]

UserOutcome(op, error, userId, address, signature) ==
  [op |-> op, error |-> error, userId |-> userId, address |-> address,
   signature |-> signature]

(* userRepository.findOne({ evmAddress: address }) *)
FindByEvmAddress(address) ==
  {id \in 1..Len(userEntities) : userEntities[id].evmAddress = address}

(* checkEvmAddress: a conflict when a user already holds the address *)
EvmAddressTaken(address) == FindByEvmAddress(address) # {}

(* createWeb3User up to the end of checkEvmAddress *)
CreateWeb3UserCheck(s, address, type) ==
  /\ userReq[s].pc = "idle"
  /\ Len(userEntities) < MaxUsers
  /\ IF EvmAddressTaken(address)
     THEN /\ userLast' = UserOutcome("createWeb3User", "AccountCannotBeRegistered",
                                     Null, address, Null)
          /\ UNCHANGED userReq
     ELSE /\ userReq' = [userReq EXCEPT ![s] = [pc |-> "insert", address |-> address,
                                                 type |-> type]]
          /\ UNCHANGED userLast
  /\ UNCHANGED <<outsideUser, userEntities>>

(* createWeb3User after the check: userRepository.createWeb3User *)
CreateWeb3UserInsert(s) ==
  /\ userReq[s].pc = "insert"
  /\ Len(userEntities) < MaxUsers
  /\ userEntities' = Append(userEntities,
                            [evmAddress |-> userReq[s].address, kyc |-> NoKyc,
                             type |-> userReq[s].type])
  /\ userReq' = [userReq EXCEPT ![s] = NoUserCall]
  /\ userLast' = UserOutcome("createWeb3User", "", Len(userEntities) + 1,
                             userReq[s].address, Null)
  /\ UNCHANGED outsideUser

IncorrectAddressNever(user, address) == FALSE

(* the first check of registerAddress *)
IncorrectAddress(user, address) ==
  user.evmAddress # Null /\ user.evmAddress # address

(* the second check of registerAddress *)
KycNotApproved(user) == user.kyc # KycStatus.APPROVED

(* web3Service.getSigner(chainId).signMessage(address) *)
SignMessage(chainId, address) == [signer |-> chainId, message |-> address]

(* registerAddress on the current row of the user; the signing after the   *)
(* save may fail, and the row stays saved.                                 *)
RegisterAddress(userId, address, chainId, signed) ==
  /\ userId \in 1..Len(userEntities)
  /\ LET user == userEntities[userId]
     IN IF IncorrectAddress(user, address)
        THEN /\ userLast' = UserOutcome("registerAddress", "IncorrectAddress",
                                        userId, address, Null)
             /\ UNCHANGED userEntities
        ELSE IF KycNotApproved(user)
        THEN /\ userLast' = UserOutcome("registerAddress", "KycNotApproved",
                                        userId, address, Null)
             /\ UNCHANGED userEntities
        ELSE /\ userEntities' = [userEntities EXCEPT ![userId].evmAddress = address]
             /\ userLast' = IF signed
                            THEN UserOutcome("registerAddress", "", userId, address,
                                             SignMessage(chainId, address))
                            ELSE UserOutcome("registerAddress", "SignerFailed",
                                             userId, address, Null)
  /\ UNCHANGED <<outsideUser, userReq>>

UserNone ==
  /\ userEntities = <<>>
  /\ userReq = [s \in UserSlots |-> NoUserCall]
  /\ userLast = NoUserOutcome

(* The users that signed up by email before, with the kyc each one reached *)
EmailUser(kyc) == [evmAddress |-> Null, kyc |-> kyc, type |-> "WORKER"]

UserInit ==
  /\ userEntities \in [1..2 -> {EmailUser(kyc) : kyc \in KycStatuses}]
  /\ userReq = [s \in UserSlots |-> NoUserCall]
  /\ userLast = NoUserOutcome

----------------------------------------------------------------------------
(* The Reputation contract *)

(* int256 is kept as a signed integer of IntBits bits: the arithmetic of    *)
(* SignedSafeMath reverts outside IntMin..IntMax.                           *)
IntBits == 16
IntMax == 2^(IntBits - 1) - 1
IntMin == -(2^(IntBits - 1))

MaxWorkers == 2
MaxListed == 3

WorkerAddresses == {"worker1", "worker2"}
Callers == {"owner", "oracle"}
Owner == "owner"
StakeAmounts == {5, 6}
MinimumStakes == {0, 1, 5}
Deltas == {IntMin, -90, 45, IntMax}
Balances == {-7, 0, 7, 100, IntMax}

MIN_REPUTATION == 1
MAX_REPUTATION == 100
BaseReputation == 50

(* the result of an operation that reverted *)
Revert == IntMin - 1

Overflows(x) == x < IntMin \/ x > IntMax

SafeAdd(a, b) ==
  IF a = Revert \/ b = Revert THEN Revert
  ELSE IF Overflows(a + b) THEN Revert ELSE a + b

SafeMul(a, b) ==
  IF a = Revert \/ b = Revert THEN Revert
  ELSE IF Overflows(a * b) THEN Revert ELSE a * b

(* the division of Solidity truncates towards zero *)
SafeDiv(a, b) ==
  IF a = Revert \/ b = Revert THEN Revert
  ELSE IF b = 0 \/ (b = -1 /\ a = IntMin) THEN Revert
  ELSE Sign(a) * Sign(b) * (Abs(a) \div Abs(b))

(* sequences of at most n elements of S *)
SeqUpTo(S, n) == UNION {[1..k -> S] : k \in 0..n}

Worker(workerAddress, reputation) ==
  [workerAddress |-> workerAddress, reputation |-> reputation]

NoCall == [op |-> "", reverted |-> FALSE, returned |-> <<>>]

(* the outcome of a call, kept with its arguments: args is the arguments,   *)
(* followed by the values returned if there are any                         *)
CallReturned(op, args) == [op |-> op, reverted |-> FALSE, returned |-> args]

CallReverted(op, args) == [op |-> op, reverted |-> TRUE, returned |-> args]

(* require(staker.tokensAvailable() > minimumStake) *)
StakeEnoughOrEqual(tokensAvailable) == tokensAvailable >= minimumStake

StakeEnough(tokensAvailable) == tokensAvailable > minimumStake

(* The body of the loop of addReputations for one worker: the reputation    *)
(* the worker gets, or Revert when an addition overflows.                   *)
NewReputationNoFloor(reputation, delta) ==
  LET sum == SafeAdd(reputation, delta)
      based == SafeAdd(delta, BaseReputation)
  IN IF sum = Revert THEN Revert
     ELSE IF sum > MAX_REPUTATION THEN MAX_REPUTATION
     ELSE IF reputation = 0 /\ based = Revert THEN Revert
     ELSE IF reputation = 0 /\ based > MAX_REPUTATION THEN MAX_REPUTATION
     ELSE IF reputation = 0 /\ based < MIN_REPUTATION THEN MIN_REPUTATION
     ELSE IF reputation = 0 THEN based
     ELSE sum

NewReputation(reputation, delta) ==
  LET sum == SafeAdd(reputation, delta)
      based == SafeAdd(delta, BaseReputation)
  IN IF sum = Revert THEN Revert
     ELSE IF sum > MAX_REPUTATION THEN MAX_REPUTATION
     ELSE IF reputation = 0 /\ based = Revert THEN Revert
     ELSE IF reputation = 0 /\ based > MAX_REPUTATION THEN MAX_REPUTATION
     ELSE IF reputation = 0 /\ based < MIN_REPUTATION THEN MIN_REPUTATION
     ELSE IF sum < MIN_REPUTATION /\ reputation # 0 THEN MIN_REPUTATION
     ELSE IF reputation = 0 THEN based
     ELSE sum

(* the loop of addReputations over the list, from the mapping reps *)
RECURSIVE AddEach(_, _)
AddEach(reps, workers) ==
  IF workers = <<>> THEN [reverted |-> FALSE, reputations |-> reps]
  ELSE LET w == Head(workers)
           new == NewReputation(reps[w.workerAddress], w.reputation)
       IN IF new = Revert
          THEN [reverted |-> TRUE, reputations |-> reps]
          ELSE AddEach([reps EXCEPT ![w.workerAddress] = new], Tail(workers))

addReputations(tokensAvailable, workers) ==
  /\ IF ~StakeEnough(tokensAvailable)
     THEN /\ reputationLast' = CallReverted("addReputations", <<tokensAvailable, workers>>)
          /\ UNCHANGED reputations
     ELSE LET result == AddEach(reputations, workers)
          IN IF result.reverted
             THEN /\ reputationLast' =
                       CallReverted("addReputations", <<tokensAvailable, workers>>)
                  /\ UNCHANGED reputations
             ELSE /\ reputations' = result.reputations
                  /\ reputationLast' =
                       CallReturned("addReputations", <<tokensAvailable, workers>>)
  /\ UNCHANGED <<outsideReputation, minimumStake>>

RECURSIVE TotalReputation(_)
TotalReputation(workers) ==
  IF workers = <<>> THEN 0
  ELSE SafeAdd(reputations[Head(workers)], TotalReputation(Tail(workers)))

RewardUndivided(balance, reputation, totalReputation) ==
  SafeMul(balance, reputation)

Reward(balance, reputation, totalReputation) ==
  SafeDiv(SafeMul(balance, reputation), totalReputation)

Rewards(balance, workers) ==
  [i \in 1..Len(workers) |->
     Reward(balance, reputations[workers[i]], TotalReputation(workers))]

getRewards(balance, workers) ==
  /\ LET returnedValues == Rewards(balance, workers)
     IN reputationLast' =
          IF TotalReputation(workers) = Revert
             \/ \E i \in 1..Len(workers) : returnedValues[i] = Revert
          THEN CallReverted("getRewards", <<balance, workers>>)
          ELSE CallReturned("getRewards", <<balance, workers, returnedValues>>)
  /\ UNCHANGED <<outsideReputation, minimumStake, reputations>>

(* _setMinimumStake *)
MinimumStakeAccepted(stake) == stake > 0

setMinimumStake(caller, stake) ==
  /\ IF caller = Owner /\ MinimumStakeAccepted(stake)
     THEN /\ minimumStake' = stake
          /\ reputationLast' = CallReturned("setMinimumStake", <<caller, stake>>)
     ELSE /\ reputationLast' = CallReverted("setMinimumStake", <<caller, stake>>)
          /\ UNCHANGED minimumStake
  /\ UNCHANGED <<outsideReputation, reputations>>

(* The contract as its constructor leaves it: no reputation, and a minimum  *)
(* stake the constructor accepted.                                          *)
Constructed(stakes) ==
  /\ minimumStake \in {stake \in stakes : MinimumStakeAccepted(stake)}
  /\ reputations = [w \in WorkerAddresses |-> 0]
  /\ reputationLast = NoCall

ReputationInit == Constructed({1})

----------------------------------------------------------------------------
(* filterAddressesToReward *)

MaxEntries == 3

(* worker addresses as the oracle receives them, in lower case or already   *)
(* in checksum case, and fortune texts as the workers typed them            *)
RewardWorkers == {"0xab", "0xAb", "0xcd"}
Fortunes == {"good luck", "be happy", "constructor"}

(* web3.utils.toChecksumAddress: the address in its mixed-case form *)
toChecksumAddress(address) ==
  CASE address = "0xab" -> "0xAb"
    [] address = "0xAb" -> "0xAb"
    [] address = "0xcd" -> "0xCd"

FortuneEntry(worker, fortune) == [worker |-> worker, fortune |-> fortune]

ReputationEntry(workerAddress, reputation) ==
  [workerAddress |-> workerAddress, reputation |-> reputation]

(* tmpHashMap is the object literal {}: a key it was not given is looked up *)
(* in Object.prototype, whose members are truthy.                           *)
ObjectPrototypeKeys ==
  {"constructor", "toString", "toLocaleString", "valueOf", "hasOwnProperty",
   "isPrototypeOf", "propertyIsEnumerable", "__proto__"}

(* tmpHashMap[fortune], as the condition of the if *)
HashMapTruthy(ownKeys, key) == key \in ownKeys \/ key \in ObjectPrototypeKeys

(* the forEach over the entries, from the state acc of the three locals *)
RECURSIVE ForEachEntry(_, _)
ForEachEntry(acc, entries) ==
  IF entries = <<>> THEN acc
  ELSE LET fortuneEntry == Head(entries)
           next ==
             IF HashMapTruthy(acc.tmpHashMap, fortuneEntry.fortune)
             THEN [acc EXCEPT !.reputationValues =
                     Append(@, ReputationEntry(fortuneEntry.worker, -1))]
             ELSE [tmpHashMap |-> acc.tmpHashMap \cup {fortuneEntry.fortune},
                   filteredResults |-> Append(acc.filteredResults, fortuneEntry),
                   reputationValues |->
                     Append(acc.reputationValues,
                            ReputationEntry(fortuneEntry.worker, 1))]
       IN ForEachEntry(next, Tail(entries))

filterAddressesToReward(addressFortunesEntries) ==
  LET acc == ForEachEntry([tmpHashMap |-> {}, filteredResults |-> <<>>,
                           reputationValues |-> <<>>], addressFortunesEntries)
  IN [workerAddresses |->
        [i \in 1..Len(acc.filteredResults) |->
           toChecksumAddress(acc.filteredResults[i].worker)],
      reputationValues |-> acc.reputationValues]

(* A call of the function on a list of entries *)
FilterAddressesToReward(addressFortunesEntries) ==
  /\ rewardInput' = addressFortunesEntries
  /\ rewardOutput' = filterAddressesToReward(addressFortunesEntries)
  /\ UNCHANGED outsideReward

NoRewards == [workerAddresses |-> <<>>, reputationValues |-> <<>>]

RewardNone ==
  /\ rewardInput = <<>>
  /\ rewardOutput = NoRewards

----------------------------------------------------------------------------
(* Specifications *)

(* The ledger starts with one fiat deposit of each of the first funded users *)
DepositPayment(userId, deposit) ==
  [userId |-> userId, source |-> "FIAT", type |-> "DEPOSIT",
   amount |-> Num(deposit), currency |-> "USD",
   rate |-> Num(1), status |-> "SUCCEEDED"]

LauncherInit(pcts, deposits, funded) ==
  /\ feePercentage \in pcts
  /\ \E deposit \in deposits :
       payments = [userId \in 1..funded |-> DepositPayment(userId, deposit)]
  /\ jobs = <<>>
  /\ storage = <<>>
  /\ chain = <<>>
  /\ webhooks = {}
  /\ req = [s \in Slots |-> Idle]
  /\ last = NoOutcome

(* A specification of one component starts the others empty and leaves them *)
(* as they are.                                                             *)
InitWith(pcts, deposits, funded) ==
  /\ LauncherInit(pcts, deposits, funded)
  /\ GraphInit
  /\ UserNone
  /\ ReputationInit
  /\ RewardNone

Init == InitWith(FeePercentages, Deposits, 1)

Next ==
  \/ \E s \in Slots, userId \in Users, requestType \in RequestTypes,
        chainId \in RequestedChainIds, fundAmount \in FundAmounts,
        complete \in BOOLEAN, rate \in Rates :
       CreateJobStart(s, userId, requestType, chainId, fundAmount, complete, rate)
  \/ \E s \in Slots, uploaded \in BOOLEAN : CreateJobUpload(s, uploaded)
  \/ \E s \in Slots, created \in BOOLEAN, selected \in SelectedChainIds :
       CreateJobCreate(s, created, selected)
  \/ \E s \in Slots, outcome \in {"ok", "overflow", "other"} : CreateJobPay(s, outcome)
  \/ \E s \in Slots : CreateJobSave(s)
  \/ \E s \in Slots, jobId \in 1..MaxJobs, escrowCreated \in BOOLEAN,
        manifestFound \in BOOLEAN :
       LaunchJobStart(s, jobId, escrowCreated, manifestFound)
  \/ \E s \in Slots, transferred \in BOOLEAN : LaunchJobTransfer(s, transferred)
  \/ \E s \in Slots : LaunchJobSave(s)
  \/ \E s \in Slots, data \in WebhookBodies : LaunchJobWebhook(s, data)

Spec == Init /\ [][Next]_vars

(* A handler that was called runs on to its return or its throw: the event *)
(* loop resumes every await whose promise settled.                          *)
Continue(s) ==
  \/ \E uploaded \in BOOLEAN : CreateJobUpload(s, uploaded)
  \/ \E created \in BOOLEAN, selected \in SelectedChainIds :
       CreateJobCreate(s, created, selected)
  \/ \E outcome \in {"ok", "overflow", "other"} : CreateJobPay(s, outcome)
  \/ CreateJobSave(s)
  \/ \E transferred \in BOOLEAN : LaunchJobTransfer(s, transferred)
  \/ LaunchJobSave(s)
  \/ \E data \in WebhookBodies : LaunchJobWebhook(s, data)

(* Every handler that was called runs on.  Nothing in the service calls    *)
(* createJob or launchJob by itself: whether and when a job is launched is  *)
(* the caller's.                                                            *)
SpecLive == Init /\ [][Next]_vars /\ \A s \in Slots : WF_vars(Continue(s))

(* One request at a time: the whole lifecycle of a job and the reads of     *)
(* getResult, by either user.                                               *)
NextResult ==
  \/ \E userId \in Users, requestType \in RequestTypes, complete \in BOOLEAN,
        rate \in Rates :
       CreateJobStart(1, userId, requestType, Null, 50, complete, rate)
  \/ \E uploaded \in BOOLEAN : CreateJobUpload(1, uploaded)
  \/ \E created \in BOOLEAN, selected \in SelectedChainIds :
       CreateJobCreate(1, created, selected)
  \/ \E outcome \in {"ok", "overflow", "other"} : CreateJobPay(1, outcome)
  \/ CreateJobSave(1)
  \/ \E jobId \in 1..MaxJobs, escrowCreated \in BOOLEAN, manifestFound \in BOOLEAN :
       LaunchJobStart(1, jobId, escrowCreated, manifestFound)
  \/ \E transferred \in BOOLEAN : LaunchJobTransfer(1, transferred)
  \/ LaunchJobSave(1)
  \/ \E data \in WebhookBodies : LaunchJobWebhook(1, data)
  \/ \E userId \in Users, jobId \in 1..(MaxJobs + 1), answer \in ResultAnswers :
       GetResult(userId, jobId, answer)

InitResult == InitWith(FeePercentages, Deposits, Cardinality(Users))

SpecResult == InitResult /\ [][NextResult]_vars

(* One request at a time: createJob over a range of fund amounts, fees and  *)
(* exchange rates.                                                          *)
CalcFundAmounts == {1, 20, 50, 200}
CalcFeePercentages == {0, 5, 10, 25}
CalcRates == {1, 2, 3, 4}

NextCalc ==
  \/ \E requestType \in RequestTypes, chainId \in RequestedChainIds,
        fundAmount \in CalcFundAmounts, rate \in CalcRates :
       CreateJobStart(1, 1, requestType, chainId, fundAmount, TRUE, rate)
  \/ \E uploaded \in BOOLEAN : CreateJobUpload(1, uploaded)
  \/ \E created \in BOOLEAN, selected \in SelectedChainIds :
       CreateJobCreate(1, created, selected)
  \/ \E outcome \in {"ok", "overflow", "other"} : CreateJobPay(1, outcome)
  \/ CreateJobSave(1)

InitCalc == InitWith(CalcFeePercentages, Deposits, 1)

SpecCalc == InitCalc /\ [][NextCalc]_vars

(* The subgraph alone: the factory launches escrows, each at an address of  *)
(* its own, and the mapping handles the events in order.                    *)
NextGraph ==
  \E factory \in Factories, launcher \in Launchers, token \in Tokens,
     escrow \in EscrowAddresses :
    /\ \A i \in 1..Len(launchedEvents) : launchedEvents[i].escrow # escrow
    /\ handleLaunched(createLaunchedEvent(factory, launcher, token, escrow))

SpecGraph == Init /\ [][NextGraph]_vars

(* One request at a time: createJob over the chain ids a request can carry  *)
(* and the chain ids the network selector can pick.                         *)
ChainRequestedChainIds == {0, 1, 2, 9}

NextChain ==
  \/ \E userId \in Users, requestType \in RequestTypes,
        chainId \in ChainRequestedChainIds, fundAmount \in FundAmounts,
        rate \in Rates :
       CreateJobStart(1, userId, requestType, chainId, fundAmount, TRUE, rate)
  \/ \E uploaded \in BOOLEAN : CreateJobUpload(1, uploaded)
  \/ \E created \in BOOLEAN, selected \in SupportedChainIds :
       CreateJobCreate(1, created, selected)
  \/ \E outcome \in {"ok", "overflow", "other"} : CreateJobPay(1, outcome)
  \/ CreateJobSave(1)

SpecChain == Init /\ [][NextChain]_vars

(* The user service alone *)
NextUser ==
  \/ \E s \in UserSlots, address \in UserAddresses, type \in UserTypes :
       CreateWeb3UserCheck(s, address, type)
  \/ \E s \in UserSlots : CreateWeb3UserInsert(s)
  \/ \E userId \in 1..MaxUsers, address \in UserAddresses,
        chainId \in SignerChainIds, signed \in BOOLEAN :
       RegisterAddress(userId, address, chainId, signed)

InitUser ==
  /\ LauncherInit(FeePercentages, Deposits, 1)
  /\ GraphInit
  /\ UserInit
  /\ ReputationInit
  /\ RewardNone

SpecUser == InitUser /\ [][NextUser]_vars

(* The Reputation contract alone *)
NextReputation ==
  \/ \E tokensAvailable \in StakeAmounts,
        workers \in SeqUpTo({Worker(w, d) : w \in WorkerAddresses, d \in Deltas},
                            MaxWorkers) :
       addReputations(tokensAvailable, workers)
  \/ \E caller \in Callers, stake \in MinimumStakes : setMinimumStake(caller, stake)

InitReputation ==
  /\ LauncherInit(FeePercentages, Deposits, 1)
  /\ GraphInit
  /\ UserNone
  /\ Constructed(MinimumStakes)
  /\ RewardNone

SpecReputation == InitReputation /\ [][NextReputation]_vars

(* getRewards over the reputations that addReputations leaves *)
NextGetRewards ==
  \/ \E tokensAvailable \in StakeAmounts, w \in WorkerAddresses, d \in Deltas :
       addReputations(tokensAvailable, <<Worker(w, d)>>)
  \/ \E balance \in Balances, workers \in SeqUpTo(WorkerAddresses, MaxListed) :
       getRewards(balance, workers)

(* The KVStore mapping alone *)
NextKVStore ==
  \E sender \in Launchers, key \in DataKeys, value \in DataValues :
    /\ Len(dataSavedEvents) < MaxDataSaved
    /\ handleDataSaved(DataSaved(Len(dataSavedEvents) + 1, sender, key, value))

SpecKVStore == Init /\ [][NextKVStore]_vars

SpecGetRewards == InitReputation /\ [][NextGetRewards]_vars

(* filterAddressesToReward on every list of at most MaxEntries entries *)
NextFilter ==
  \E addressFortunesEntries \in
       SeqUpTo({FortuneEntry(w, f) : w \in RewardWorkers, f \in Fortunes}, MaxEntries) :
    FilterAddressesToReward(addressFortunesEntries)

SpecFilter == Init /\ [][NextFilter]_vars

----------------------------------------------------------------------------
(* What the properties are stated with: exact decimal arithmetic, without   *)
(* rounding, and the rows and records a property is about.                  *)

ExactMul(a, b) == Norm(a.m * b.m, a.e + b.e)

ExactAdd(a, b) == LET e == Max(a.e, b.e) IN Norm(Aligned(a, e) + Aligned(b, e), e)

ExactPercent(pct, amount) == Norm(amount.m * pct, amount.e + 2)

ExactLess(a, b) == LET e == Max(a.e, b.e) IN Aligned(a, e) < Aligned(b, e)

JobIds == 1..Len(jobs)

HasDebit(ps, job) ==
  \E i \in 1..Len(ps) :
    /\ ps[i].userId = job.userId
    /\ ps[i].type = "WITHDRAWAL"
    /\ ps[i].status = "SUCCEEDED"
    /\ ps[i].amount = neg(ExactAdd(job.fundAmount, job.fee))

SchemaValid(manifest) ==
  \/ manifest.requestType = "FORTUNE" /\ manifest.complete
  \/ /\ manifest.requestType # "FORTUNE"
     /\ manifest.annotationType \in JobRequestType
     /\ manifest.complete

----------------------------------------------------------------------------
(* C1: after any interleaving of createJob calls of one user, the balance   *)
(* recomputed from the user's payments never drops below zero.              *)
C1_BalanceNeverNegative ==
  \A userId \in Users : ~ExactLess(getUserBalance(userId), Zero)

(* C2: a createJob call that read a balance strictly below fundAmount + fee *)
(* goes no further than the balance check, and a call that fails with       *)
(* NotEnoughFunds creates no payment, no job row and no manifest.           *)
C2_InsufficientFundsRejected ==
  /\ [](\A s \in Slots :
         req[s].op = "createJob" =>
           ~ExactLess(req[s].userBalance,
                      ExactAdd(req[s].fundAmount,
                               ExactPercent(feePercentage, req[s].fundAmount))))
  /\ [][(last' # last /\ last'.op = "createJob" /\ last'.error = "NotEnoughFunds")
          => UNCHANGED <<payments, jobs, storage, req>>]_vars

C2_Witness ==
  /\ last.op = "createJob" /\ last.error = "NotEnoughFunds"
  /\ ~ExactLess(getUserBalance(1), Num(100))
  /\ jobs = <<>> /\ storage = <<>> /\ Len(payments) = 1

(* C3: a job row is created PENDING, and a row is PAID only if a succeeded  *)
(* withdrawal of its user with amount -(fundAmount + fee) was recorded      *)
(* before the row became PAID.                                              *)
C3_PaidOnlyAfterDebit ==
  /\ [][\A j \in 1..Len(jobs') :
          /\ j > Len(jobs) => jobs'[j].status = "PENDING"
          /\ (j <= Len(jobs) /\ jobs[j].status # "PAID" /\ jobs'[j].status = "PAID")
               => HasDebit(payments, jobs'[j])]_vars
  /\ [](\A j \in JobIds : jobs[j].status = "PAID" => HasDebit(payments, jobs[j]))

C3_Witness ==
  \E j \in JobIds : jobs[j].status = "PAID" /\ HasDebit(payments, jobs[j])

(* C4, as stated: a launchJob of a PAID job that got its escrow address and *)
(* a valid manifest leaves its transfer and its save with the row LAUNCHED, *)
(* holding that address.                                                    *)
C4_LaunchEndsLaunched ==
  [][\A s \in Slots :
       ( /\ req[s].op = "launchJob"
         /\ req[s].jobEntity.status = "PAID"
         /\ req'[s].pc \in {"idle", "webhook"} )
       => /\ jobs'[req[s].jobEntity.id].status = "LAUNCHED"
          /\ jobs'[req[s].jobEntity.id].escrowAddress = req[s].escrowAddress
          /\ req[s].escrowAddress # Null]_vars

(* C4, amended: the same, of a launchJob whose token transfer succeeded.    *)
C4_LaunchEndsLaunchedAfterTransfer ==
  [][\A s \in Slots :
       ( /\ req[s].op = "launchJob"
         /\ req[s].jobEntity.status = "PAID"
         /\ req'[s].pc \in {"idle", "webhook"}
         /\ chain[req[s].escrowAddress].transfers > 0 )
       => /\ jobs'[req[s].jobEntity.id].status = "LAUNCHED"
          /\ jobs'[req[s].jobEntity.id].escrowAddress = req[s].escrowAddress
          /\ req[s].escrowAddress # Null]_vars

C4_Witness ==
  /\ last.op = "launchJob" /\ last.error = ""
  /\ last.jobId \in JobIds
  /\ jobs[last.jobId].status = "LAUNCHED"
  /\ jobs[last.jobId].escrowAddress \in 1..Len(chain)
  /\ chain[jobs[last.jobId].escrowAddress].balance = jobs[last.jobId].fundAmount

(* C5, as stated: no escrow is created on chain for a job whose manifest    *)
(* fails the schema of its declared request type.                           *)
C5_NoEscrowForInvalidManifest ==
  \A a \in 1..Len(chain) : SchemaValid(storage[chain[a].manifestUrl])

(* C5, amended: no escrow receives tokens and no job becomes LAUNCHED for a *)
(* manifest that fails the schema of its declared request type.             *)
C5_NoFundingForInvalidManifest ==
  /\ \A a \in 1..Len(chain) :
       chain[a].transfers > 0 => SchemaValid(storage[chain[a].manifestUrl])
  /\ \A j \in JobIds :
       jobs[j].status = "LAUNCHED" => SchemaValid(storage[jobs[j].manifestUrl])

C5_Witness ==
  \E a \in 1..Len(chain) :
    /\ ~SchemaValid(storage[chain[a].manifestUrl])
    /\ chain[a].transfers = 0
    /\ jobs[chain[a].jobId].status = "PAID"
    /\ last.op = "launchJob" /\ last.error = "ManifestValidationFailed"

(* C6: a launchJob that got its escrow and fetched a manifest failing the   *)
(* schema of its declared type fails with ManifestValidationFailed, moves   *)
(* no tokens and leaves the job rows as they were.                          *)
C6_InvalidManifestFailsLaunch ==
  [][\A s \in Slots, jobId \in JobIds :
       ( /\ ~SchemaValid(storage[jobs[jobId].manifestUrl])
         /\ LaunchJobStart(s, jobId, TRUE, TRUE) )
       => /\ last'.op = "launchJob"
          /\ last'.error = "ManifestValidationFailed"
          /\ last'.jobId = jobId
          /\ jobs' = jobs /\ req' = req
          /\ \A a \in 1..Len(chain) : chain'[a] = chain[a]
          /\ \A a \in 1..Len(chain') : a > Len(chain) => chain'[a].transfers = 0]_vars

C6_Witness ==
  /\ last.op = "launchJob" /\ last.error = "ManifestValidationFailed"
  /\ last.jobId \in JobIds
  /\ storage[jobs[last.jobId].manifestUrl].annotationType = "IMAGE_POINTS"
  /\ ~storage[jobs[last.jobId].manifestUrl].complete
  /\ jobs[last.jobId].status # "LAUNCHED"

(* C7: getResult(userId, jobId) fails with NotFound exactly when job jobId  *)
(* is not a LAUNCHED job of userId; only otherwise is the escrow queried.   *)
C7_ResultOnlyOfOwnLaunchedJob ==
  [][(last' # last /\ last'.op = "getResult") =>
       (last'.error = "NotFound" <=>
          ~( /\ last'.jobId \in JobIds
             /\ jobs[last'.jobId].userId = last'.userId
             /\ jobs[last'.jobId].status = "LAUNCHED" ))]_vars

C7_Witness ==
  /\ last.op = "getResult" /\ last.error = "NotFound"
  /\ last.jobId \in JobIds
  /\ jobs[last.jobId].status = "PAID"
  /\ jobs[last.jobId].userId = last.userId
  /\ \E j \in JobIds : jobs[j].status = "LAUNCHED" /\ jobs[j].userId # last.userId

(* C8: the status of a job is one of the six of JobStatus, and an escrow    *)
(* address is written to a row only together with the status LAUNCHED.      *)
C8_StatusAndEscrowAddress ==
  /\ [](\A j \in JobIds : jobs[j].status \in JobStatus)
  /\ [][\A j \in 1..Len(jobs') :
          ( /\ jobs'[j].escrowAddress # Null
            /\ j > Len(jobs) \/ jobs[j].escrowAddress # jobs'[j].escrowAddress )
          => jobs'[j].status = "LAUNCHED"]_vars

C8_Witness ==
  \E j, k \in JobIds :
    /\ jobs[j].status = "LAUNCHED" /\ jobs[j].escrowAddress # Null
    /\ jobs[k].status = "PAID" /\ jobs[k].escrowAddress = Null

(* C9: the fee createJob computes is fundAmount * feePercentage / 100 and   *)
(* the total is fundAmount + fee, exactly.                                  *)
C9_FeeAndTotalExact ==
  \A s \in Slots :
    req[s].op = "createJob" =>
      /\ req[s].fee = ExactPercent(feePercentage, req[s].fundAmount)
      /\ req[s].usdTotalAmount = ExactAdd(req[s].fundAmount, req[s].fee)

C9_Witness ==
  \E s \in Slots :
    /\ req[s].op = "createJob"
    /\ feePercentage = 5
    /\ req[s].fundAmount = Num(50)
    /\ req[s].fee = Norm(25, 1)
    /\ req[s].usdTotalAmount = Norm(525, 1)

(* C10: a createJob that returns leaves its job PAID with fundAmount =      *)
(* usdFundAmount * r and fee = usdFee * r, and a debit of the user with     *)
(* amount -(job.fundAmount + job.fee) = -(usdFundAmount + usdFee) * r.      *)
C10_TokenAmountsAndDebit ==
  [][\A s \in Slots :
       (req[s].op = "createJob" /\ req[s].pc = "save" /\ req'[s].pc = "idle") =>
         LET r == req[s]
             job == jobs'[r.jobEntity.id]
             usdFee == ExactPercent(feePercentage, r.fundAmount)
         IN /\ job.status = "PAID"
            /\ job.fundAmount = ExactMul(r.fundAmount, r.rate)
            /\ job.fee = ExactMul(usdFee, r.rate)
            /\ \E i \in 1..Len(payments') :
                 /\ payments'[i].userId = r.userId
                 /\ payments'[i].type = "WITHDRAWAL"
                 /\ payments'[i].amount = neg(ExactAdd(job.fundAmount, job.fee))
                 /\ payments'[i].amount =
                      neg(ExactMul(ExactAdd(r.fundAmount, usdFee), r.rate))]_vars

C10_Witness ==
  /\ last.op = "createJob" /\ last.error = ""
  /\ feePercentage = 10
  /\ jobs[last.jobId].status = "PAID"
  /\ jobs[last.jobId].fundAmount = Num(150)
  /\ jobs[last.jobId].fee = Num(15)
  /\ payments[Len(payments)].amount = Num(-165)

(* C11: a createJob whose ledger write throws fails with IncorrectAmount on *)
(* a numeric overflow and with NotSuccess otherwise; the step writes no     *)
(* payment and no job row, and the row the call inserted is still the       *)
(* PENDING row it inserted, unless a launch of that row went through.       *)
C11_FailedDebitLeavesPending ==
  [][\A s \in Slots, outcome \in {"overflow", "other"} :
       CreateJobPay(s, outcome) =>
         LET id == req[s].jobEntity.id
         IN /\ last'.op = "createJob"
            /\ last'.jobId = id
            /\ last'.error = (IF outcome = "overflow" THEN "IncorrectAmount"
                                                        ELSE "NotSuccess")
            /\ jobs' = jobs
            /\ payments' = payments
            /\ req[s].jobEntity.status = "PENDING"
            /\ jobs'[id] = req[s].jobEntity \/ jobs'[id].status = "LAUNCHED"
            /\ req'[s] = Idle]_vars

C11_Witness ==
  /\ last.op = "createJob" /\ last.error = "IncorrectAmount"
  /\ last.jobId \in JobIds
  /\ jobs[last.jobId].status = "PENDING"
  /\ \A i \in 1..Len(payments) : payments[i].type # "WITHDRAWAL"

(* C12: every job that is PAID is later LAUNCHED with its fund amount in    *)
(* its escrow, or its user is credited what the job's debit took.           *)
Escrowed(j) ==
  /\ jobs[j].status = "LAUNCHED"
  /\ jobs[j].escrowAddress \in 1..Len(chain)
  /\ ~ExactLess(chain[jobs[j].escrowAddress].balance, jobs[j].fundAmount)

Returned(j) ==
  \E i \in 1..Len(payments) :
    /\ payments[i].userId = jobs[j].userId
    /\ payments[i].source = "BALANCE"
    /\ payments[i].amount = ExactAdd(jobs[j].fundAmount, jobs[j].fee)

C12_DebitEventuallyMatched ==
  \A j \in 1..MaxJobs :
    (j \in JobIds /\ jobs[j].status = "PAID")
      ~> (j \in JobIds /\ (Escrowed(j) \/ Returned(j)))

(* C13: a launchJob that fails at the escrow creation, the manifest fetch,  *)
(* the manifest validation or the token transfer writes no job row and no   *)
(* payment, posts no webhook, moves no tokens and is over: the row it was   *)
(* handed keeps its status and its escrow address.                          *)
C13_FailedLaunchChangesNothing ==
  [][\A s \in Slots :
       /\ \A jobId \in JobIds, escrowCreated \in BOOLEAN, manifestFound \in BOOLEAN :
            ( /\ LaunchJobStart(s, jobId, escrowCreated, manifestFound)
              /\ \/ ~escrowCreated
                 \/ ~manifestFound
                 \/ ~SchemaValid(storage[jobs[jobId].manifestUrl]) )
            => /\ last'.op = "launchJob" /\ last'.jobId = jobId
               /\ last'.error \in {"EscrowNotCreated", "ManifestNotFound",
                                   "ManifestValidationFailed"}
               /\ UNCHANGED <<jobs, payments, webhooks, req>>
               /\ Len(chain') <= Len(chain) + 1
               /\ \A a \in 1..Len(chain') :
                    IF a <= Len(chain) THEN chain'[a] = chain[a]
                                       ELSE chain'[a].transfers = 0
       /\ LaunchJobTransfer(s, FALSE)
            => /\ last'.op = "launchJob" /\ last'.jobId = req[s].jobEntity.id
               /\ last'.error = "TransferFailed"
               /\ UNCHANGED <<jobs, payments, webhooks, chain>>
               /\ req' = [req EXCEPT ![s] = Idle]]_vars

C13_Witness ==
  /\ last.op = "launchJob" /\ last.error = "TransferFailed"
  /\ last.jobId \in JobIds
  /\ jobs[last.jobId].status = "PAID"
  /\ jobs[last.jobId].escrowAddress = Null
  /\ \E a \in 1..Len(chain) : chain[a].jobId = last.jobId /\ chain[a].transfers = 0
  /\ \A s \in Slots : req[s] = Idle

(* C14: the webhook is posted only by a launchJob that has saved its job    *)
(* LAUNCHED with the escrow address and whose manifest is of annotation     *)
(* type; a truthy body ends the call well, any other body ends it with      *)
(* WebhookWasNotSent, and the post leaves the job rows as saved.            *)
C14_WebhookAfterLaunched ==
  /\ [](\A s \in Slots :
         req[s].pc = "webhook" =>
           /\ req[s].manifest.annotationType \in JobRequestType
           /\ req[s].jobEntity.status = "LAUNCHED"
           /\ req[s].jobEntity.escrowAddress = req[s].escrowAddress
           /\ req[s].escrowAddress # Null)
  /\ [][\A s \in Slots :
          /\ (req[s].pc # "webhook" /\ req'[s].pc = "webhook")
               => /\ req[s].pc = "save"
                  /\ jobs'[req[s].jobEntity.id] = req'[s].jobEntity
          /\ \A data \in WebhookBodies :
               LaunchJobWebhook(s, data)
                 => /\ jobs' = jobs
                    /\ last'.op = "launchJob"
                    /\ last'.jobId = req[s].jobEntity.id
                    /\ last'.error =
                         (IF data \in {"text", "object"} THEN "" ELSE "WebhookWasNotSent")]_vars
  /\ [][webhooks' # webhooks =>
          \E s \in Slots :
            /\ req[s].pc = "webhook" /\ req'[s].pc = "idle"
            /\ webhooks' = webhooks \cup
                  {[escrowAddress |-> req[s].escrowAddress,
                    chainId |-> req[s].jobEntity.chainId]}]_vars

C14_Witness ==
  /\ last.op = "launchJob" /\ last.error = "WebhookWasNotSent"
  /\ last.jobId \in JobIds
  /\ jobs[last.jobId].status = "LAUNCHED"
  /\ jobs[last.jobId].escrowAddress # Null
  /\ [escrowAddress |-> jobs[last.jobId].escrowAddress,
      chainId |-> jobs[last.jobId].chainId] \in webhooks
  /\ \E j \in JobIds :
       /\ storage[jobs[j].manifestUrl].requestType = "FORTUNE"
       /\ jobs[j].status = "LAUNCHED"
       /\ \A w \in webhooks : w.escrowAddress # jobs[j].escrowAddress

(* C15: a getResult that found its job and downloaded a document returns    *)
(* the document when it has the shape of a fortune result or that of an     *)
(* annotation result, whatever the type of the job, and fails with          *)
(* ResultValidationFailed exactly when it has neither shape.                *)
C15_ResultOfEitherShape ==
  [][\A result \in ResultDocs :
       ( /\ last'.op = "getResult"
         /\ GetResult(last'.userId, last'.jobId,
                      [finalResultUrl |-> 1, downloaded |-> <<result>>])
         /\ last'.jobId \in JobIds
         /\ jobs[last'.jobId].userId = last'.userId
         /\ jobs[last'.jobId].status = "LAUNCHED" )
       => IF \/ {"exchangeAddress", "workerAddress", "solution"} \subseteq result
             \/ {"url", "final_answer", "correct"} \subseteq result
          THEN last'.error = "" /\ last'.result = result
          ELSE last'.error = "ResultValidationFailed" /\ last'.result = {}]_vars

C15_Witness ==
  /\ last.op = "getResult" /\ last.error = ""
  /\ last.result = {"url", "final_answer", "correct"}
  /\ last.jobId \in JobIds
  /\ storage[jobs[last.jobId].manifestUrl].requestType = "FORTUNE"

(* C16: every job row carries a supported chain id: the id of the request   *)
(* when it gave one, else the selector's pick; a request with an id that is *)
(* not supported fails with InvalidChainId, whatever its funds, and leaves  *)
(* the ledger, the bucket and the job table as they were.                   *)
C16_JobChainIdSupported ==
  /\ [](\A j \in JobIds : jobs[j].chainId \in SupportedChainIds)
  /\ [][\A s \in Slots :
          /\ (req[s].pc = "create" /\ req'[s].pc = "pay")
               => /\ Len(jobs') = Len(jobs) + 1
                  /\ req[s].chainId # Null
                       => jobs'[Len(jobs')].chainId = req[s].chainId
          /\ \A chainId \in ChainRequestedChainIds \ (SupportedChainIds \cup {Null}),
                userId \in Users, requestType \in RequestTypes,
                fundAmount \in FundAmounts, rate \in Rates :
               CreateJobStart(s, userId, requestType, chainId, fundAmount, TRUE, rate)
                 => /\ last'.op = "createJob" /\ last'.error = "InvalidChainId"
                    /\ UNCHANGED <<payments, jobs, storage, req>>]_vars

C16_Witness ==
  /\ last.op = "createJob" /\ last.error = "InvalidChainId"
  /\ \E j \in JobIds : jobs[j].chainId = 2 /\ jobs[j].status = "PAID"

(* C17: a createJob whose upload returns no file fails with UnableSaveFile; *)
(* the call has inserted no job row and written no payment, and the step    *)
(* leaves the tables, the bucket and the user's balance as they were.       *)
C17_FailedUploadCreatesNothing ==
  [][\A s \in Slots :
       CreateJobUpload(s, FALSE)
         => /\ last'.op = "createJob" /\ last'.error = "UnableSaveFile"
            /\ last'.jobId = Null
            /\ req[s].jobEntity = NoEntity
            /\ UNCHANGED <<jobs, payments, storage>>
            /\ SumPayments(payments', req[s].userId) = getUserBalance(req[s].userId)
            /\ req' = [req EXCEPT ![s] = Idle]]_vars

C17_Witness ==
  /\ last.op = "createJob" /\ last.error = "UnableSaveFile"
  /\ jobs = <<>> /\ storage = <<>>
  /\ Len(payments) = 1
  /\ getUserBalance(1) = Num(100)

(* C18: a launchJob whose escrow creation returns no address fails with     *)
(* EscrowNotCreated, whatever the manifest of the job would have given, and *)
(* moves no tokens, writes no job row and posts no webhook.                 *)
C18_NoAddressEndsLaunch ==
  [][\A s \in Slots, jobId \in JobIds, manifestFound \in BOOLEAN :
       LaunchJobStart(s, jobId, FALSE, manifestFound)
         => /\ last'.op = "launchJob" /\ last'.jobId = jobId
            /\ last'.error = "EscrowNotCreated"
            /\ UNCHANGED <<jobs, payments, chain, webhooks, req>>]_vars

C18_Witness ==
  /\ last.op = "launchJob" /\ last.error = "EscrowNotCreated"
  /\ last.jobId \in JobIds
  /\ ~SchemaValid(storage[jobs[last.jobId].manifestUrl])
  /\ jobs[last.jobId].status = "PAID"
  /\ jobs[last.jobId].escrowAddress = Null
  /\ chain = <<>> /\ webhooks = {}

(* C19: the payment table only grows, by one record at a time, and only in  *)
(* the debit step of a createJob, which appends a withdrawal of the call's  *)
(* user with a negative amount; a createJob that returns has made that step *)
(* once, and no step of launchJob or getResult touches the table.           *)
C19_PaymentsAppendOnly ==
  /\ [][payments' # payments =>
          \E s \in Slots :
            /\ req[s].op = "createJob" /\ req[s].pc = "pay" /\ req'[s].pc = "save"
            /\ Len(payments') = Len(payments) + 1
            /\ SubSeq(payments', 1, Len(payments)) = payments
            /\ payments'[Len(payments')].type = "WITHDRAWAL"
            /\ payments'[Len(payments')].userId = req[s].userId
            /\ payments'[Len(payments')].amount.m < 0]_vars
  /\ [][\A s \in Slots :
          /\ (req[s].op = "createJob" /\ req'[s].pc = "idle" /\ last'.error = "")
               => req[s].pc = "save" /\ payments' = payments
          /\ (req[s].op = "createJob" /\ req'[s].pc = "save")
               => \/ req[s].pc = "save" /\ payments' = payments
                  \/ req[s].pc = "pay" /\ payments' # payments]_vars

C19_Witness ==
  /\ last.op = "getResult" /\ last.error = ""
  /\ \E j \in JobIds : jobs[j].status = "LAUNCHED"
  /\ Cardinality({i \in 1..Len(payments) : payments[i].type = "WITHDRAWAL"}) = 1
  /\ payments[Len(payments)].type = "WITHDRAWAL"
  /\ payments[Len(payments)].amount = Num(-110)

(* C20: after the Launched events of escrows at distinct addresses, the     *)
(* store holds one Escrow per event, Launched, with balance, amountPaid and *)
(* totalFundedAmount 0 and the token, factory and launcher of its event;    *)
(* the escrow of the i-th event has count i, the statistics count all the   *)
(* events, and every launcher's Leader counts the events it sent.           *)
LaunchedBy(launcher) ==
  Cardinality({i \in 1..Len(launchedEvents) : launchedEvents[i].from = launcher})

C21_RegisterAddressRules ==
  [][\A userId \in 1..MaxUsers, address \in UserAddresses,
        chainId \in SignerChainIds, signed \in BOOLEAN :
       RegisterAddress(userId, address, chainId, signed) =>
         LET user == userEntities[userId]
             other == user.evmAddress # Null /\ user.evmAddress # address
         IN /\ other =>
                 /\ userLast'.error = "IncorrectAddress"
                 /\ userLast'.signature = Null
                 /\ userEntities' = userEntities
            /\ (~other /\ user.kyc # "APPROVED") =>
                 /\ userLast'.error = "KycNotApproved"
                 /\ userLast'.signature = Null
                 /\ userEntities' = userEntities
            /\ (~other /\ user.kyc = "APPROVED") =>
                 /\ userEntities'[userId].evmAddress = address
                 /\ userLast'.error \notin {"IncorrectAddress", "KycNotApproved"}
            /\ user.evmAddress # Null =>
                 userEntities'[userId].evmAddress = user.evmAddress
            /\ \A id \in 1..Len(userEntities) :
                 id # userId => userEntities'[id] = userEntities[id]]_vars

(* a user holding an address was refused another one, and an approved user  *)
(* without an address registered one and got it signed                      *)
C21_Witness ==
  /\ userLast.op = "registerAddress"
  /\ userLast.error = "IncorrectAddress"
  /\ userEntities[userLast.userId].kyc = "APPROVED"
  /\ userEntities[userLast.userId].evmAddress \in UserAddresses \ {userLast.address}
  /\ \E id \in 1..Len(userEntities) :
       userEntities[id].kyc # "APPROVED" /\ userEntities[id].evmAddress = Null

(* C29: no two users ever hold the same evmAddress *)
C29_NoSharedEvmAddress ==
  \A id1, id2 \in 1..Len(userEntities) :
    (id1 # id2 /\ userEntities[id1].evmAddress # Null) =>
      userEntities[id1].evmAddress # userEntities[id2].evmAddress


(* the escrows created for job j, and the transfers made to them *)
EscrowsOf(j) == {a \in 1..Len(chain) : chain[a].jobId = j}

RECURSIVE TransfersTo(_)
TransfersTo(as) ==
  IF as = {} THEN 0
  ELSE LET a == CHOOSE x \in as : TRUE
       IN chain[a].transfers + TransfersTo(as \ {a})

(* C22: for every job, over any sequence of launchJob calls, at most one    *)
(* escrow is created, fundAmount is transferred at most once, and only for  *)
(* a job whose debit succeeded.                                             *)
C22_OneFundedEscrowPerPaidJob ==
  \A j \in JobIds :
    /\ Cardinality(EscrowsOf(j)) <= 1
    /\ TransfersTo(EscrowsOf(j)) <= 1
    /\ TransfersTo(EscrowsOf(j)) > 0 => HasDebit(payments, jobs[j])

(* C23: once launchJob has returned or failed, every escrow it created is   *)
(* the escrowAddress of the job it was created for.                         *)
C23_EveryEscrowRecorded ==
  \A a \in 1..Len(chain) :
    (\A s \in Slots : ~(req[s].op = "launchJob" /\ req[s].escrowAddress = a)) =>
      jobs[chain[a].jobId].escrowAddress = a


(* C24: the debit createJob writes is worth exactly the checked USD total,  *)
(* amount * rate = -usdTotalAmount, so over calls that do not overlap the   *)
(* balance drops by exactly usdTotalAmount with each debit and never goes   *)
(* below zero.                                                              *)
C24_DebitWorthUsdTotal ==
  [][\A s \in Slots :
       (req[s].op = "createJob" /\ req[s].pc = "pay" /\ req'[s].pc = "save") =>
         LET p == payments'[Len(payments')]
             userId == req[s].userId
             usdTotalAmount == req[s].usdTotalAmount
         IN /\ ExactMul(p.amount, p.rate) = neg(usdTotalAmount)
            /\ SumPayments(payments', userId)
                 = ExactAdd(getUserBalance(userId), neg(usdTotalAmount))
            /\ ~lt(SumPayments(payments', userId), Zero)]_vars


(* What the claims say of the Reputation contract, in unbounded integers *)
Clamp(x) ==
  IF x < 1 THEN 1 ELSE IF x > 100 THEN 100 ELSE x

Scored(reputation, delta) ==
  Clamp((IF reputation = 0 THEN 50 ELSE reputation) + delta)

RECURSIVE ScoreEach(_, _)
ScoreEach(reps, workers) ==
  IF workers = <<>> THEN reps
  ELSE LET w == Head(workers)
       IN ScoreEach([reps EXCEPT ![w.workerAddress] = Scored(@, w.reputation)],
                    Tail(workers))

(* a scored worker of the list gets a delta that takes the sum out of int256 *)
RECURSIVE SumOverflows(_, _)
SumOverflows(reps, workers) ==
  IF workers = <<>> THEN FALSE
  ELSE LET w == Head(workers)
           r == reps[w.workerAddress]
       IN \/ r # 0 /\ r + w.reputation > IntMax
          \/ SumOverflows([reps EXCEPT ![w.workerAddress] = Scored(@, w.reputation)],
                          Tail(workers))

AllReputationsInRange ==
  \A w \in WorkerAddresses : reputations[w] = 0 \/ reputations[w] \in 1..100

(* C25, as stated: every reputation is 0 or within 1..100, and an           *)
(* addReputations call of a caller with enough stake leaves each listed     *)
(* worker, in the order of the list, at clamp(50 + delta) if it was at 0    *)
(* and at clamp(r + delta) if it was at r # 0, whatever the deltas.         *)
C25_ScoredByClamp ==
  [][reputationLast'.op = "addReputations" =>
       LET tokensAvailable == reputationLast'.returned[1]
           workers == reputationLast'.returned[2]
       IN /\ AllReputationsInRange'
          /\ tokensAvailable > minimumStake =>
               reputations' = ScoreEach(reputations, workers)]_vars

(* C25, amended: the same, unless a worker at r # 0 is given a delta with   *)
(* r + delta above the largest int256; the call then reverts and changes no *)
(* reputation.                                                              *)
C25_ScoredByClampUnlessOverflow ==
  [][reputationLast'.op = "addReputations" =>
       LET tokensAvailable == reputationLast'.returned[1]
           workers == reputationLast'.returned[2]
       IN /\ AllReputationsInRange'
          /\ tokensAvailable > minimumStake =>
               IF SumOverflows(reputations, workers)
               THEN reputationLast'.reverted /\ reputations' = reputations
               ELSE /\ ~reputationLast'.reverted
                    /\ reputations' = ScoreEach(reputations, workers)]_vars

(* a call that listed a new worker and then a scored one with a delta that  *)
(* overflows was reverted, and a scored worker has stayed off 0             *)
C25_Witness ==
  /\ reputationLast.op = "addReputations"
  /\ reputationLast.reverted
  /\ reputationLast.returned[1] > minimumStake
  /\ LET workers == reputationLast.returned[2]
     IN /\ Len(workers) = 2
        /\ reputations[workers[1].workerAddress] = 0
        /\ reputations[workers[2].workerAddress] = 1
        /\ workers[2].reputation = IntMax

RECURSIVE SumSeq(_)
SumSeq(s) == IF s = <<>> THEN 0 ELSE Head(s) + SumSeq(Tail(s))

TruncDiv(a, b) == Sign(a) * Sign(b) * (Abs(a) \div Abs(b))

ListedReputations(workers) == [i \in 1..Len(workers) |-> reputations[workers[i]]]

(* the rewards the claim describes, for a total that is not 0 *)
RewardsAsClaimed(reverted, returned, balance, workers) ==
  LET total == SumSeq(ListedReputations(workers))
  IN /\ ~reverted
     /\ Len(returned) = Len(workers)
     /\ \A i \in 1..Len(workers) :
          returned[i] = TruncDiv(balance * reputations[workers[i]], total)
     /\ balance >= 0 =>
          /\ SumSeq(returned) <= balance
          /\ balance - SumSeq(returned) < Len(workers)

(* C26, as stated: getRewards returns balance * reputation / total for each *)
(* listed worker, for balance >= 0 the rewards sum to at most balance and   *)
(* fall short of it by less than the number of workers, and the call        *)
(* reverts when no listed worker is scored.                                 *)
C26_RewardsProportional ==
  [][reputationLast'.op = "getRewards" =>
       LET balance == reputationLast'.returned[1]
           workers == reputationLast'.returned[2]
       IN IF SumSeq(ListedReputations(workers)) = 0
          THEN reputationLast'.reverted
          ELSE /\ ~reputationLast'.reverted
               /\ RewardsAsClaimed(FALSE, reputationLast'.returned[3], balance, workers)]_vars

(* C26, amended: the same for a list that is not empty and a balance whose  *)
(* product with each listed reputation fits int256; the empty list returns  *)
(* the empty list, and the call reverts when a product overflows.           *)
C26_RewardsProportionalInRange ==
  [][reputationLast'.op = "getRewards" =>
       LET balance == reputationLast'.returned[1]
           workers == reputationLast'.returned[2]
       IN IF workers = <<>>
          THEN ~reputationLast'.reverted /\ reputationLast'.returned[3] = <<>>
          ELSE IF SumSeq(ListedReputations(workers)) = 0
          THEN reputationLast'.reverted
          ELSE IF \E i \in 1..Len(workers) :
                    Overflows(balance * reputations[workers[i]])
          THEN reputationLast'.reverted
          ELSE /\ ~reputationLast'.reverted
               /\ RewardsAsClaimed(FALSE, reputationLast'.returned[3], balance, workers)]_vars

(* rewards of 7 over three listed workers, one of them twice, that lose to  *)
(* the truncation                                                           *)
C26_Witness ==
  /\ reputationLast.op = "getRewards"
  /\ ~reputationLast.reverted
  /\ reputationLast.returned[1] = 7
  /\ LET workers == reputationLast.returned[2]
         returned == reputationLast.returned[3]
     IN /\ Len(workers) = 3
        /\ workers[1] = workers[3] /\ workers[1] # workers[2]
        /\ reputations[workers[1]] # reputations[workers[2]]
        /\ \A i \in 1..3 : returned[i] > 0
        /\ SumSeq(returned) < 7

(* C27: addReputations changes reputations only for a caller whose          *)
(* available stake is strictly above minimumStake and otherwise reverts     *)
(* with every reputation unchanged; minimumStake is always positive.        *)
C27_StakeGuardsReputations ==
  [][/\ minimumStake > 0 /\ minimumStake' > 0
     /\ reputationLast'.op = "addReputations" =>
          LET tokensAvailable == reputationLast'.returned[1]
          IN /\ reputations' # reputations => tokensAvailable > minimumStake
             /\ ~(tokensAvailable > minimumStake) =>
                  reputationLast'.reverted /\ reputations' = reputations
     /\ reputationLast'.op = "setMinimumStake" =>
          /\ reputations' = reputations
          /\ minimumStake' # minimumStake =>
               reputationLast'.returned = <<"owner", minimumStake'>>
          /\ reputationLast'.returned[2] = 0 =>
               reputationLast'.reverted /\ minimumStake' = minimumStake]_vars

(* after the owner raised the minimum stake to 5, a caller with exactly 5   *)
(* available was reverted on a list that would have scored a worker         *)
C27_Witness ==
  /\ reputationLast.op = "addReputations"
  /\ reputationLast.reverted
  /\ reputationLast.returned[1] = minimumStake
  /\ Len(reputationLast.returned[2]) > 0
  /\ \A i \in 1..Len(reputationLast.returned[2]) :
       reputationLast.returned[2][i].reputation \in -90..45
  /\ \E w \in WorkerAddresses : reputations[w] # 0


(* the entries of the list that carry their fortune text first *)
FirstOfItsFortune(entries, i) ==
  \A j \in 1..(i - 1) : entries[j].fortune # entries[i].fortune

RECURSIVE FirstWorkers(_, _)
FirstWorkers(entries, i) ==
  IF i > Len(entries) THEN <<>>
  ELSE IF FirstOfItsFortune(entries, i)
  THEN <<toChecksumAddress(entries[i].worker)>> \o FirstWorkers(entries, i + 1)
  ELSE FirstWorkers(entries, i + 1)

(* C28: filterAddressesToReward returns one reputation entry per input      *)
(* entry, in order, +1 for the first entry of each distinct fortune text    *)
(* and -1 for each later one, and workerAddresses is the workers of the +1  *)
(* entries in order, as many as there are distinct fortune texts.           *)
C28_FirstOfEachFortuneRewarded ==
  LET entries == rewardInput
      out == rewardOutput
  IN /\ Len(out.reputationValues) = Len(entries)
     /\ \A i \in 1..Len(entries) :
          /\ out.reputationValues[i].workerAddress = entries[i].worker
          /\ out.reputationValues[i].reputation
               = IF FirstOfItsFortune(entries, i) THEN 1 ELSE -1
     /\ out.workerAddresses = FirstWorkers(entries, 1)
     /\ Len(out.workerAddresses)
          = Cardinality({entries[i].fortune : i \in 1..Len(entries)})


(* the events up to number n, and those of them that set attribute key of  *)
(* sender, whatever the case of their key                                   *)
SettingEvents(events, sender, key) ==
  {i \in 1..Len(events) :
     /\ events[i].event.sender = sender
     /\ toLowerCase(events[i].event.key) = key}

LatestValue(events, sender, key) ==
  IF SettingEvents(events, sender, key) = {} THEN Unset
  ELSE LET i == CHOOSE i \in SettingEvents(events, sender, key) :
                  \A j \in SettingEvents(events, sender, key) : j <= i
       IN events[i].event.value

(* the fee is held as the integer of the value *)
AsInteger(value) == IF value = "007" THEN "7" ELSE value

AttributesFollow(events) ==
  \A sender \in Launchers :
    IF \E i \in 1..Len(events) : events[i].event.sender = sender
    THEN /\ sender \in DOMAIN Leader
         /\ Leader[sender].role = LatestValue(events, sender, "role")
         /\ Leader[sender].fee = AsInteger(LatestValue(events, sender, "fee"))
         /\ Leader[sender].publicKey = LatestValue(events, sender, "publickey")
         /\ Leader[sender].webhookUrl = LatestValue(events, sender, "webhookurl")
         /\ Leader[sender].url = LatestValue(events, sender, "url")
    ELSE sender \notin DOMAIN Leader

EventsRecorded(events) ==
  /\ Cardinality(DOMAIN KVStoreSetEvent) = Len(events)
  /\ \A i \in 1..Len(events) :
       LET event == events[i].event
       IN /\ event.id \in DOMAIN KVStoreSetEvent
          /\ KVStoreSetEvent[event.id].leaderAddress = event.sender
          /\ KVStoreSetEvent[event.id].key = event.key
          /\ KVStoreSetEvent[event.id].value = event.value

(* C30, as stated: there is one KVStoreSetEvent per DataSaved event, and    *)
(* each of role, fee, publicKey, webhookUrl and url of a sender's Leader    *)
(* is the value of the sender's latest event for that key, matched without  *)
(* regard to case; other keys and other senders' events change none.        *)
C30_LeaderFollowsDataSaved ==
  /\ EventsRecorded(dataSavedEvents)
  /\ AttributesFollow(dataSavedEvents)

(* the events the subgraph handled without aborting *)
HandledEvents == SelectSeq(dataSavedEvents, LAMBDA e : ~e.aborted)

(* C30, amended: the same over the events before the first one that sets    *)
(* fee to a value that is not an integer; at that event the handler aborts, *)
(* nothing of it is recorded and the subgraph handles no later event.       *)
C30_LeaderFollowsHandledDataSaved ==
  /\ EventsRecorded(HandledEvents)
  /\ AttributesFollow(HandledEvents)
  /\ \A i \in 1..Len(dataSavedEvents) :
       dataSavedEvents[i].aborted <=>
         /\ toLowerCase(dataSavedEvents[i].event.key) = "fee"
         /\ dataSavedEvents[i].event.value = "seven"
         /\ i = Len(dataSavedEvents)

(* a sender set its role twice under keys of mixed case, the other sender   *)
(* set a fee, and a third key changed nothing                               *)
C30_Witness ==
  /\ Len(dataSavedEvents) = 3
  /\ \A i \in 1..3 : ~dataSavedEvents[i].aborted
  /\ dataSavedEvents[1].event.key = "Role"
  /\ dataSavedEvents[2].event.key = "FEE"
  /\ dataSavedEvents[3].event.key = "Role"
  /\ dataSavedEvents[1].event.sender = dataSavedEvents[3].event.sender
  /\ dataSavedEvents[1].event.sender # dataSavedEvents[2].event.sender
  /\ dataSavedEvents[1].event.value # dataSavedEvents[3].event.value
  /\ Leader[dataSavedEvents[3].event.sender].role = dataSavedEvents[3].event.value
  /\ Leader[dataSavedEvents[2].event.sender].fee = "7"
  /\ Leader[dataSavedEvents[2].event.sender].role = Unset

====
